---- MODULE Spec2Model ----
(***************************************************************************)
(* A model of the agentic_patterns package: the chat-history containers    *)
(* (utils/completions.py), the reflection loop                             *)
(* (reflection_pattern/reflection_agent.py), tag extraction                *)
(* (utils/extraction.py), and the tool decorator, argument validation and  *)
(* tool-calling loop (tool_pattern/tool.py, tool_pattern/tool_agent.py);   *)
(* and of insert_image_embedding of the twin_celebrity package             *)
(* (vector_twin/qdrant/utils.py).                                          *)
(*                                                                         *)
(* A text is a sequence of characters; a message is a record               *)
(* [role, content], as build_prompt_structure builds it.  A Python list is *)
(* a sequence; list index i is sequence index i + 1.                       *)
(***************************************************************************)
EXTENDS Integers, Sequences, FiniteSets, TLC

\* ------------------------------------------------------------------ bounds
MaxCapacity == 3
MaxSeed == 2
MaxAppends == 4
MaxSteps == 3
MaxCalls == 2
MaxPieces == 6
MaxRuns == 2
MaxArgs == 2
MaxValidations == 2
MaxInserts == 3

\* ------------------------------------------------- utils/completions.py
VARIABLES
    total_length,   \* the total_length both containers were constructed with
    messages,       \* the messages both containers were constructed with
    history,        \* the ChatHistory (its list content)
    ffhistory,      \* the FixedFirstChatHistory (its list content)
    hcalls,         \* the argument of every ChatHistory.append call, in order
    ffcalls,        \* the argument of every FixedFirstChatHistory.append call
    hraised,        \* what the last ChatHistory.append raised, "none" if nothing
    ffraised        \* what the last FixedFirstChatHistory.append raised

\* ------------------------------- reflection_pattern/reflection_agent.py
VARIABLES
    pc,                   \* where ReflectionAgent.run is
    n_steps,              \* run's argument
    step,                 \* the loop variable of `for step in range(n_steps)`
    generation_history,   \* the generator's FixedFirstChatHistory
    reflection_history,   \* the critic's FixedFirstChatHistory
    generation,           \* the local `generation`: <<>> unbound, <<text>> bound
    critique,             \* the local `critique`: <<>> unbound, <<text>> bound
    requests,             \* every completion request made: [by, messages]
    generations,          \* every draft the generator returned, in order
    critiques,            \* every critique the critic returned, in order
    result                \* run's outcome: [kind, value]

\* ------------------------------------------ tool_pattern/tool_agent.py
VARIABLES
    tpc,                  \* where ToolAgent.run is
    tool_chat_history,    \* run's ChatHistory with the tool system prompt
    agent_chat_history,   \* run's ChatHistory for the final answer
    tool_calls,           \* the TagContentResult of the first response
    next_call,            \* how many spans process_tool_calls has consumed
    observations,         \* the dict `observations`: [id, value] in insertion order
    executions,           \* every Tool.run call made, in order, with the id of
                          \* its tool call and what it raised or returned
    trequests,            \* the messages of every completion request of run
    tresponses,           \* every completion returned to run, in order
    tresult               \* run's outcome: [kind, value, error]

\* ---------------------------- tool_pattern/tool.py: the tool decorator
VARIABLES
    registered,           \* the Tool objects the decorator has returned, in order
    reg_raised,           \* what the last use of the decorator raised
    called                \* the last tool call made on a registered tool and
                          \* what it raised: [tool, argument, raised]

\* ------------------------------------------------- utils/extraction.py
VARIABLES
    input_pieces,         \* the pieces the text is written from, in order
    input_text,           \* the text handed to extract_tag_content
    extracted             \* <<>> before the call, <<TagContentResult>> after

\* ------------------------------------------ runs on one agent instance
VARIABLE runs_made        \* the runs the agent instance has completed

\* --------------------- tool_pattern/tool.py: validate_arguments alone
VARIABLES
    v_tool,               \* the Tool the call is for
    v_tool_call,          \* the tool call dict handed to validate_arguments
    v_results,            \* what each validate_arguments call made so far
                          \* returned or raised, in order: [raised, tool_call]
    v_ran                 \* <<>> before tool.run, <<[raised, kwargs]>> after

\* ------------------------------------------- vector_twin/qdrant/utils.py
VARIABLES
    points,               \* the points of the collection: [id, vector, label]
    logged,               \* the records logger.error has written, in order
    inserts               \* every insert_image_embedding call made, in order:
                          \* its arguments and how it ended

histvars == <<total_length, messages, history, ffhistory,
              hcalls, ffcalls, hraised, ffraised>>
reflvars == <<pc, n_steps, step, generation_history, reflection_history,
              generation, critique, requests, generations, critiques, result>>
toolvars == <<tpc, tool_chat_history, agent_chat_history, tool_calls, next_call,
              observations, executions, trequests, tresponses, tresult>>
regvars == <<registered, reg_raised, called>>
extvars == <<input_pieces, input_text, extracted>>
valvars == <<v_tool, v_tool_call, v_results, v_ran>>
qdrvars == <<points, logged, inserts>>
morevars == <<valvars, qdrvars>>
auxvars == <<regvars, extvars, runs_made, morevars>>
vars == <<histvars, reflvars, toolvars, auxvars>>

\* build_prompt_structure(prompt, role) with the default tag "".
build_prompt_structure(prompt, role) == [role |-> role, content |-> prompt]

\* The messages the containers are exercised with.
Messages ==
    { build_prompt_structure(<<"a">>, "user"),
      build_prompt_structure(<<"b">>, "assistant") }

\* The capacities: -1 (unbounded, the default) and 0 .. MaxCapacity.
Capacities == (-1) .. MaxCapacity

\* Every sequence over S of length 0 .. n.
SeqUpTo(S, n) == UNION { [1 .. k -> S] : k \in 0 .. n }

\* list.pop(index) for index >= 0: IndexError when there is no such element,
\* otherwise the list without it.
ListPop(self, index) ==
    IF index >= Len(self)
    THEN [raised |-> "IndexError", list |-> self]
    ELSE [raised |-> "none",
          list |-> SubSeq(self, 1, index) \o SubSeq(self, index + 2, Len(self))]

\* A plausible slip in ChatHistory.append: `self.pop()` evicts the newest.
ChatHistoryAppendPopLast(self, cap, msg) ==
    IF Len(self) = cap
    THEN LET popped == ListPop(self, Len(self) - 1)
         IN  IF popped.raised # "none" \/ Len(self) = 0
             THEN [raised |-> "IndexError", list |-> self]
             ELSE [raised |-> "none", list |-> Append(popped.list, msg)]
    ELSE [raised |-> "none", list |-> Append(self, msg)]

\* A plausible slip in ChatHistory.append: `>=` for `==` in the capacity test.
ChatHistoryAppendGe(self, cap, msg) ==
    IF Len(self) >= cap
    THEN LET popped == ListPop(self, 0)
         IN  IF popped.raised # "none"
             THEN [raised |-> popped.raised, list |-> self]
             ELSE [raised |-> "none", list |-> Append(popped.list, msg)]
    ELSE [raised |-> "none", list |-> Append(self, msg)]

\* ChatHistory.append(self, msg): when the length equals total_length,
\* self.pop(0); then list.append.  An exception of pop leaves the list as it
\* was and the message unappended.
ChatHistoryAppend(self, cap, msg) ==
    IF Len(self) = cap
    THEN LET popped == ListPop(self, 0)
         IN  IF popped.raised # "none"
             THEN [raised |-> popped.raised, list |-> self]
             ELSE [raised |-> "none", list |-> Append(popped.list, msg)]
    ELSE [raised |-> "none", list |-> Append(self, msg)]

\* A plausible slip in FixedFirstChatHistory.append: inheriting pop(0).
FixedFirstAppendPopZero(self, cap, msg) == ChatHistoryAppend(self, cap, msg)

\* A plausible slip in FixedFirstChatHistory.append: `self.pop()` evicts the
\* newest message.
FixedFirstAppendPopLast(self, cap, msg) == ChatHistoryAppendPopLast(self, cap, msg)

\* A plausible slip in FixedFirstChatHistory.append: the eviction skipped
\* silently when there is no index 1.
FixedFirstAppendGuarded(self, cap, msg) ==
    IF Len(self) = cap /\ Len(self) > 1
    THEN [raised |-> "none", list |-> Append(ListPop(self, 1).list, msg)]
    ELSE [raised |-> "none", list |-> Append(self, msg)]

\* A plausible slip in FixedFirstChatHistory.append: `>=` for `==`.
FixedFirstAppendGe(self, cap, msg) ==
    IF Len(self) >= cap
    THEN LET popped == ListPop(self, 1)
         IN  IF popped.raised # "none"
             THEN [raised |-> popped.raised, list |-> self]
             ELSE [raised |-> "none", list |-> Append(popped.list, msg)]
    ELSE [raised |-> "none", list |-> Append(self, msg)]

\* FixedFirstChatHistory.append(self, msg): when the length equals
\* total_length, self.pop(1); then list.append.
FixedFirstChatHistoryAppend(self, cap, msg) ==
    IF Len(self) = cap
    THEN LET popped == ListPop(self, 1)
         IN  IF popped.raised # "none"
             THEN [raised |-> popped.raised, list |-> self]
             ELSE [raised |-> "none", list |-> Append(popped.list, msg)]
    ELSE [raised |-> "none", list |-> Append(self, msg)]

\* ChatHistory.__init__ and FixedFirstChatHistory.__init__, called with the
\* same arguments: both lists hold a copy of the given messages.
HistInit ==
    /\ total_length \in Capacities
    /\ messages \in SeqUpTo(Messages, MaxSeed)
    /\ history = messages
    /\ ffhistory = messages
    /\ hcalls = <<>>
    /\ ffcalls = <<>>
    /\ hraised = "none"
    /\ ffraised = "none"

\* history.append(msg) on the ChatHistory
PlainAppend(msg) ==
    /\ Len(hcalls) < MaxAppends
    /\ LET r == ChatHistoryAppend(history, total_length, msg)
       IN  /\ history' = r.list
           /\ hraised' = r.raised
    /\ hcalls' = Append(hcalls, msg)
    /\ UNCHANGED <<total_length, messages, ffhistory, ffcalls, ffraised>>

\* history.append(msg) on the FixedFirstChatHistory
FixedFirstAppend(msg) ==
    /\ Len(ffcalls) < MaxAppends
    /\ LET r == FixedFirstChatHistoryAppend(ffhistory, total_length, msg)
       IN  /\ ffhistory' = r.list
           /\ ffraised' = r.raised
    /\ ffcalls' = Append(ffcalls, msg)
    /\ UNCHANGED <<total_length, messages, history, hcalls, hraised>>

\* The reflection loop is idle while the containers are exercised.
ReflIdle ==
    /\ pc = "idle"
    /\ n_steps = 0
    /\ step = 0
    /\ generation_history = <<>>
    /\ reflection_history = <<>>
    /\ generation = <<>>
    /\ critique = <<>>
    /\ requests = <<>>
    /\ generations = <<>>
    /\ critiques = <<>>
    /\ result = [kind |-> "none", value |-> <<>>, error |-> "none"]

\* No ToolAgent.run is made while the containers or the reflection loop are
\* exercised.
ToolIdle ==
    /\ tpc = "idle"
    /\ tool_chat_history = <<>>
    /\ agent_chat_history = <<>>
    /\ tool_calls = [content |-> <<>>, found |-> FALSE]
    /\ next_call = 0
    /\ observations = <<>>
    /\ executions = <<>>
    /\ trequests = <<>>
    /\ tresponses = <<>>
    /\ tresult = [kind |-> "none", value |-> <<>>, error |-> "none"]

\* Nothing is registered, no text is extracted and no agent is run again
\* while the containers, the reflection loop or the tool loop are exercised.
RegIdle ==
    /\ registered = <<>>
    /\ reg_raised = "none"
    /\ called = [tool |-> "none", argument |-> "none", raised |-> "none"]

ExtIdle ==
    /\ input_pieces = <<>>
    /\ input_text = <<>>
    /\ extracted = <<>>

\* No tool call is validated on its own and no embedding is inserted.
ValIdle ==
    /\ v_tool = "none"
    /\ v_tool_call = [name |-> "none"]
    /\ v_results = <<>>
    /\ v_ran = <<>>

QdrIdle ==
    /\ points = <<>>
    /\ logged = <<>>
    /\ inserts = <<>>

MoreIdle == ValIdle /\ QdrIdle

AuxIdle == RegIdle /\ ExtIdle /\ runs_made = 0 /\ MoreIdle

Init == HistInit /\ ReflIdle /\ ToolIdle /\ AuxIdle

Next ==
    \/ \E msg \in Messages : PlainAppend(msg) /\ UNCHANGED <<reflvars, toolvars, auxvars>>
    \/ \E msg \in Messages : FixedFirstAppend(msg) /\ UNCHANGED <<reflvars, toolvars, auxvars>>

Spec == Init /\ [][Next]_vars

\* ------------------------------- reflection_pattern/reflection_agent.py
\* BASE_GENERATION_SYSTEM_PROMPT and BASE_REFLECTION_SYSTEM_PROMPT, abridged:
\* the reflection prompt quotes the stop sequence.
BASE_GENERATION_SYSTEM_PROMPT == <<"G">>
BASE_REFLECTION_SYSTEM_PROMPT == <<"R", "<", "O", "K", ">">>

\* The literal of `"<OK>" in critique`.
StopSequence == <<"<", "O", "K", ">">>

\* total_length=3 of both histories of run.
ReflectionTotalLength == 3

\* Python's `sub in text` for texts.
Contains(sub, text) ==
    \E i \in 1 .. (Len(text) - Len(sub) + 1) :
        SubSeq(text, i, i + Len(sub) - 1) = sub

\* A plausible slip in the stop test: the literal mistyped in lower case.
StopSequenceFoundLowerCase(text) == Contains(<<"<", "o", "k", ">">>, text)

\* A plausible slip in the stop test: `critique == "<OK>"` for `in`.
StopSequenceFoundExact(text) == text = StopSequence

\* `"<OK>" in critique`
StopSequenceFound(text) == Contains(StopSequence, text)

\* A slip run could have: its histories built as plain ChatHistory, whose
\* append evicts index 0.
update_chat_history_plain(hist, msg, role) ==
    ChatHistoryAppend(hist, ReflectionTotalLength, build_prompt_structure(msg, role))

\* update_chat_history(history, msg, role) on one of run's histories:
\* history.append(build_prompt_structure(prompt=msg, role=role)).
update_chat_history(hist, msg, role) ==
    FixedFirstChatHistoryAppend(hist, ReflectionTotalLength,
                                build_prompt_structure(msg, role))

\* The arguments run is called with, and what the model may answer.
UserMsgs == { <<"q">> }
SystemPrompts == { <<>>, <<"P">> }
NSteps == 0 .. MaxSteps
Drafts == { <<"d", "1">>, <<"d", "2">> }
Critiques == { <<"<", "O", "K", ">">>,
               <<"o", "k", " ", "<", "O", "K", ">", ".">>,
               <<"f", "i", "x">> }

\* The containers are left alone while the reflection loop runs.
HistIdle ==
    /\ total_length = -1
    /\ messages = <<>>
    /\ history = <<>>
    /\ ffhistory = <<>>
    /\ hcalls = <<>>
    /\ ffcalls = <<>>
    /\ hraised = "none"
    /\ ffraised = "none"

\* After ReflectionAgent.__init__: no run yet.
ReflectionInit ==
    /\ HistIdle
    /\ ToolIdle
    /\ AuxIdle
    /\ pc = "ready"
    /\ n_steps = 0
    /\ step = 0
    /\ generation_history = <<>>
    /\ reflection_history = <<>>
    /\ generation = <<>>
    /\ critique = <<>>
    /\ requests = <<>>
    /\ generations = <<>>
    /\ critiques = <<>>
    /\ result = [kind |-> "none", value |-> <<>>, error |-> "none"]

\* A slip run could have: the two histories kept on the agent instance and
\* built only when they are still empty, so that a later run goes on with
\* the messages of the run before it.
RunKeepingHistories(user_msg, generation_system_prompt, reflection_system_prompt, n) ==
    /\ pc = "ready"
    /\ n_steps' = n
    /\ step' = 0
    /\ generation_history' =
           IF generation_history # <<>>
           THEN generation_history
           ELSE << build_prompt_structure(
                       generation_system_prompt \o BASE_GENERATION_SYSTEM_PROMPT, "system"),
                   build_prompt_structure(user_msg, "user") >>
    /\ reflection_history' =
           IF reflection_history # <<>>
           THEN reflection_history
           ELSE << build_prompt_structure(
                       reflection_system_prompt \o BASE_REFLECTION_SYSTEM_PROMPT, "system") >>
    /\ pc' = "loop"
    /\ generation' = <<>>
    /\ critique' = <<>>
    /\ UNCHANGED <<requests, generations, critiques, result>>

\* run(user_msg, generation_system_prompt, reflection_system_prompt, n_steps)
\* up to the loop: a new frame, its locals `generation` and `critique`
\* unbound; the base prompts appended, the two histories built.
Run(user_msg, generation_system_prompt, reflection_system_prompt, n) ==
    /\ pc = "ready"
    /\ n_steps' = n
    /\ step' = 0
    /\ generation_history' =
           << build_prompt_structure(
                  generation_system_prompt \o BASE_GENERATION_SYSTEM_PROMPT, "system"),
              build_prompt_structure(user_msg, "user") >>
    /\ reflection_history' =
           << build_prompt_structure(
                  reflection_system_prompt \o BASE_REFLECTION_SYSTEM_PROMPT, "system") >>
    /\ pc' = "loop"
    /\ generation' = <<>>
    /\ critique' = <<>>
    /\ UNCHANGED <<requests, generations, critiques, result>>

\* An exception leaves run.
Raise(error) ==
    /\ pc' = "done"
    /\ result' = [kind |-> "raised", value |-> <<>>, error |-> error]

\* A plausible slip in STEP 1: the draft appended to the generator history
\* alone, the critic asked without it.
GenerateDraftNotShown(draft) ==
    /\ pc = "loop"
    /\ step < n_steps
    /\ requests' = Append(requests, [by |-> "generator", messages |-> generation_history])
    /\ generations' = Append(generations, draft)
    /\ generation' = <<draft>>
    /\ LET g == update_chat_history(generation_history, draft, "assistant")
       IN  IF g.raised # "none"
           THEN /\ generation_history' = g.list
                /\ Raise(g.raised)
           ELSE /\ generation_history' = g.list
                /\ pc' = "reflect"
                /\ UNCHANGED result
    /\ UNCHANGED <<n_steps, step, critique, critiques, reflection_history>>

\* STEP 1 of an iteration: self.generate(generation_history) returns `draft`,
\* which is appended to the generator history as assistant turn and to the
\* critic history as user turn.
Generate(draft) ==
    /\ pc = "loop"
    /\ step < n_steps
    /\ requests' = Append(requests, [by |-> "generator", messages |-> generation_history])
    /\ generations' = Append(generations, draft)
    /\ generation' = <<draft>>
    /\ LET g == update_chat_history(generation_history, draft, "assistant")
           r == update_chat_history(reflection_history, draft, "user")
       IN  IF g.raised # "none"
           THEN /\ generation_history' = g.list
                /\ Raise(g.raised)
                /\ UNCHANGED reflection_history
           ELSE IF r.raised # "none"
           THEN /\ generation_history' = g.list
                /\ reflection_history' = r.list
                /\ Raise(r.raised)
           ELSE /\ generation_history' = g.list
                /\ reflection_history' = r.list
                /\ pc' = "reflect"
                /\ UNCHANGED result
    /\ UNCHANGED <<n_steps, step, critique, critiques>>

\* A plausible slip in STEP 1: the failure caught and the request retried.
GenerateFailsRetry ==
    /\ pc = "loop"
    /\ step < n_steps
    /\ Len(requests) < 2 * MaxSteps + 2
    /\ requests' = Append(requests, [by |-> "generator", messages |-> generation_history])
    /\ UNCHANGED <<pc, result, n_steps, step, generation_history, reflection_history,
                   generation, critique, generations, critiques>>

\* STEP 1 when completions_create raises: the exception leaves run.
GenerateFails ==
    /\ pc = "loop"
    /\ step < n_steps
    /\ requests' = Append(requests, [by |-> "generator", messages |-> generation_history])
    /\ Raise("APIError")
    /\ UNCHANGED <<n_steps, step, generation_history, reflection_history,
                   generation, critique, generations, critiques>>

\* A plausible slip in STEPS 2 to 4: the critique appended to both histories
\* before the stop test.
ReflectAppendThenTest(text) ==
    /\ pc = "reflect"
    /\ requests' = Append(requests, [by |-> "critic", messages |-> reflection_history])
    /\ critiques' = Append(critiques, text)
    /\ critique' = <<text>>
    /\ LET g == update_chat_history(generation_history, text, "user")
           r == update_chat_history(reflection_history, text, "assistant")
       IN  /\ generation_history' = g.list
           /\ reflection_history' = r.list
           /\ IF g.raised # "none" THEN Raise(g.raised) /\ UNCHANGED step
              ELSE IF r.raised # "none" THEN Raise(r.raised) /\ UNCHANGED step
              ELSE IF StopSequenceFound(text)
              THEN pc' = "break" /\ UNCHANGED <<step, result>>
              ELSE step' = step + 1 /\ pc' = "loop" /\ UNCHANGED result
    /\ UNCHANGED <<n_steps, generation, generations>>

\* STEPS 2 to 4: self.reflect(reflection_history) returns `text`; with the
\* stop sequence in it the loop breaks, otherwise the critique is appended
\* to the generator history as user turn and to the critic history as
\* assistant turn and the next iteration begins.
Reflect(text) ==
    /\ pc = "reflect"
    /\ requests' = Append(requests, [by |-> "critic", messages |-> reflection_history])
    /\ critiques' = Append(critiques, text)
    /\ critique' = <<text>>
    /\ IF StopSequenceFound(text)
       THEN /\ pc' = "break"
            /\ UNCHANGED <<step, generation_history, reflection_history, result>>
       ELSE LET g == update_chat_history(generation_history, text, "user")
                r == update_chat_history(reflection_history, text, "assistant")
            IN  IF g.raised # "none"
                THEN /\ generation_history' = g.list
                     /\ Raise(g.raised)
                     /\ UNCHANGED <<step, reflection_history>>
                ELSE IF r.raised # "none"
                THEN /\ generation_history' = g.list
                     /\ reflection_history' = r.list
                     /\ Raise(r.raised)
                     /\ UNCHANGED step
                ELSE /\ generation_history' = g.list
                     /\ reflection_history' = r.list
                     /\ step' = step + 1
                     /\ pc' = "loop"
                     /\ UNCHANGED result
    /\ UNCHANGED <<n_steps, generation, generations>>

\* STEP 2 when completions_create raises: the exception leaves run.
ReflectFails ==
    /\ pc = "reflect"
    /\ requests' = Append(requests, [by |-> "critic", messages |-> reflection_history])
    /\ Raise("APIError")
    /\ UNCHANGED <<n_steps, step, generation_history, reflection_history,
                   generation, critique, generations, critiques>>

\* `return generation`, after the break or once range(n_steps) is exhausted:
\* UnboundLocalError when no iteration has bound the local.
Return ==
    /\ \/ pc = "break"
       \/ pc = "loop" /\ step >= n_steps
    /\ pc' = "done"
    /\ result' = IF generation = <<>>
                 THEN [kind |-> "raised", value |-> <<>>, error |-> "UnboundLocalError"]
                 ELSE [kind |-> "returned", value |-> generation[1], error |-> "none"]
    /\ UNCHANGED <<n_steps, step, generation_history, reflection_history,
                   generation, critique, requests, generations, critiques>>

ReflectionNext ==
    \/ \E u \in UserMsgs, g \in SystemPrompts, r \in SystemPrompts, n \in NSteps :
           Run(u, g, r, n) /\ UNCHANGED <<histvars, toolvars, auxvars>>
    \/ \E draft \in Drafts : Generate(draft) /\ UNCHANGED <<histvars, toolvars, auxvars>>
    \/ GenerateFails /\ UNCHANGED <<histvars, toolvars, auxvars>>
    \/ \E text \in Critiques : Reflect(text) /\ UNCHANGED <<histvars, toolvars, auxvars>>
    \/ ReflectFails /\ UNCHANGED <<histvars, toolvars, auxvars>>
    \/ Return /\ UNCHANGED <<histvars, toolvars, auxvars>>

ReflectionSpec == ReflectionInit /\ [][ReflectionNext]_vars

\* ------------------------------------------------- utils/extraction.py
\* The least element of a non-empty set of integers.
MinOf(S) == CHOOSE x \in S : \A y \in S : x <= y

\* The first index >= from at which sub occurs in text, 0 when there is none.
IndexFrom(sub, text, from) ==
    LET at == { i \in from .. (Len(text) - Len(sub) + 1) :
                    SubSeq(text, i, i + Len(sub) - 1) = sub }
    IN  IF at = {} THEN 0 ELSE MinOf(at)

\* re.findall(open + "(.*?)" + close, text, re.DOTALL) from index `from`: the
\* leftmost opening tag, the first closing tag after it, and so on after
\* that closing tag.
RECURSIVE FindAll(_, _, _, _)
FindAll(open, close, text, from) ==
    LET i == IndexFrom(open, text, from)
        j == IndexFrom(close, text, i + Len(open))
    IN  IF i = 0 \/ j = 0
        THEN <<>>
        ELSE <<SubSeq(text, i + Len(open), j - 1)>>
                 \o FindAll(open, close, text, j + Len(close))

\* A plausible slip in the pattern: the closing tag optional, so that an
\* unterminated opening tag captures the rest of the text.
RECURSIVE FindAllUnterminated(_, _, _, _)
FindAllUnterminated(open, close, text, from) ==
    LET i == IndexFrom(open, text, from)
        j == IndexFrom(close, text, i + Len(open))
    IN  IF i = 0
        THEN <<>>
        ELSE IF j = 0
        THEN <<SubSeq(text, i + Len(open), Len(text))>>
        ELSE <<SubSeq(text, i + Len(open), j - 1)>>
                 \o FindAllUnterminated(open, close, text, j + Len(close))

\* The characters str.strip() removes.
Whitespace == {" ", "\n", "\t", "\r"}

\* str.strip()
RECURSIVE Strip(_)
Strip(text) ==
    IF text = <<>> THEN <<>>
    ELSE IF Head(text) \in Whitespace THEN Strip(Tail(text))
    ELSE IF text[Len(text)] \in Whitespace THEN Strip(SubSeq(text, 1, Len(text) - 1))
    ELSE text

\* extract_tag_content with the slip of FindAllUnterminated.
extract_tag_content_unterminated(text, tag) ==
    LET matched_contents ==
            FindAllUnterminated(<<"<">> \o tag \o <<">">>,
                                <<"<", "/">> \o tag \o <<">">>, text, 1)
    IN  [content |-> [i \in 1 .. Len(matched_contents) |-> Strip(matched_contents[i])],
         found |-> matched_contents # <<>>]

\* A plausible slip in the pattern: (.*) for (.*?), which runs to the last
\* closing tag of the text.
extract_tag_content_greedy(text, tag) ==
    LET open == <<"<">> \o tag \o <<">">>
        close == <<"<", "/">> \o tag \o <<">">>
        i == IndexFrom(open, text, 1)
        ends == { j \in (i + Len(open)) .. (Len(text) - Len(close) + 1) :
                      SubSeq(text, j, j + Len(close) - 1) = close }
        matched_contents ==
            IF i = 0 \/ ends = {} THEN <<>>
            ELSE <<SubSeq(text, i + Len(open),
                          (CHOOSE j \in ends : \A k \in ends : k <= j) - 1)>>
    IN  [content |-> [k \in 1 .. Len(matched_contents) |-> Strip(matched_contents[k])],
         found |-> matched_contents # <<>>]

\* extract_tag_content(text, tag)
extract_tag_content(text, tag) ==
    LET matched_contents ==
            FindAll(<<"<">> \o tag \o <<">">>,
                    <<"<", "/">> \o tag \o <<">">>, text, 1)
    IN  [content |-> [i \in 1 .. Len(matched_contents) |-> Strip(matched_contents[i])],
         found |-> matched_contents # <<>>]

\* --------------------------------------------- tool_pattern/tool.py
\* A Python value is [type, repr]: the name of its type and its text.
IntValue(digits) == [type |-> "int", repr |-> digits]
StrValue(text) == [type |-> "str", repr |-> text]

\* The texts int() accepts.
IntLiterals == { <<"3">>, <<"5">>, <<"8">> }

\* A plausible slip in the type test: `type(value) is T` for isinstance.
IsInstanceExact(value, type_name) == value.type = type_name

\* isinstance(value, type_mapping[type_name]): bool is a subclass of int.
IsInstance(value, type_name) ==
    \/ value.type = type_name
    \/ value.type = "bool" /\ type_name = "int"

\* `not value`: the empty text, the number zero, False.
Falsy(value) ==
    \/ value.type = "str" /\ value.repr = <<>>
    \/ value.type \in {"int", "float"} /\ value.repr \in {<<"0">>, <<"0", ".", "0">>}
    \/ value.type = "bool" /\ value.repr = <<"F", "a", "l", "s", "e">>

\* The texts of the floats with an integer value, and the integer of each.
FloatLiterals == { digits \o <<".", "0">> : digits \in IntLiterals }
Truncated(text) == SubSeq(text, 1, Len(text) - 2)

\* A plausible slip in the conversion: a value the constructor refuses kept
\* as it is instead of raising.
ConstructLenient(type_name, value) ==
    CASE type_name = "str" ->
            [raised |-> "none", value |-> StrValue(value.repr)]
      [] type_name = "int" /\ value.type = "str" /\ value.repr \in IntLiterals ->
            [raised |-> "none", value |-> IntValue(value.repr)]
      [] OTHER -> [raised |-> "none", value |-> value]

\* type_mapping[type_name](value): the constructor of the declared type.
Construct(type_name, value) ==
    CASE type_name = "str" ->
            [raised |-> "none", value |-> StrValue(value.repr)]
      [] type_name = "int" /\ value.type = "str" /\ value.repr \in IntLiterals ->
            [raised |-> "none", value |-> IntValue(value.repr)]
      [] type_name = "int" /\ value.type = "float" /\ value.repr \in FloatLiterals ->
            [raised |-> "none", value |-> IntValue(Truncated(value.repr))]
      [] type_name = "float" /\ value.type \in {"int", "str"} /\ value.repr \in IntLiterals ->
            [raised |-> "none",
             value |-> [type |-> "float", repr |-> value.repr \o <<".", "0">>]]
      [] type_name = "float" /\ value.type = "str" /\ value.repr \in FloatLiterals ->
            [raised |-> "none", value |-> [type |-> "float", repr |-> value.repr]]
      [] type_name = "float" /\ value.type = "bool" ->
            [raised |-> "none",
             value |-> [type |-> "float",
                        repr |-> IF Falsy(value) THEN <<"0", ".", "0">>
                                                 ELSE <<"1", ".", "0">>]]
      [] type_name = "bool" ->
            [raised |-> "none",
             value |-> [type |-> "bool",
                        repr |-> IF Falsy(value)
                                 THEN <<"F", "a", "l", "s", "e">>
                                 ELSE <<"T", "r", "u", "e">>]]
      [] OTHER -> [raised |-> "ValueError", value |-> value]

\* The keys of type_mapping.
TypeNames == {"int", "str", "bool", "float"}

\* validate_arguments(tool_call, tool_signature): the arguments, a list of
\* [name, value] in the order of the JSON object, converted one after the
\* other; the first failure leaves the function.
RECURSIVE ValidateFrom(_, _, _)
ValidateFrom(arguments, properties, k) ==
    IF k > Len(arguments)
    THEN [raised |-> "none", arguments |-> arguments]
    ELSE LET arg_name == arguments[k].name
             arg_value == arguments[k].value
         IN  IF arg_name \notin DOMAIN properties
             THEN [raised |-> "KeyError", arguments |-> arguments]
             ELSE LET expected_type == properties[arg_name].type
                  IN  IF expected_type \notin TypeNames
                      THEN [raised |-> "KeyError", arguments |-> arguments]
                      ELSE IF IsInstance(arg_value, expected_type)
                      THEN ValidateFrom(arguments, properties, k + 1)
                      ELSE LET c == Construct(expected_type, arg_value)
                           IN  IF c.raised # "none"
                               THEN [raised |-> c.raised, arguments |-> arguments]
                               ELSE ValidateFrom(
                                        [arguments EXCEPT ![k].value = c.value],
                                        properties, k + 1)

\* A slip validate_arguments could have: an argument the schema does not
\* declare passed over and kept.
RECURSIVE ValidateFromSkipping(_, _, _)
ValidateFromSkipping(arguments, properties, k) ==
    IF k > Len(arguments)
    THEN [raised |-> "none", arguments |-> arguments]
    ELSE LET arg_name == arguments[k].name
             arg_value == arguments[k].value
         IN  IF arg_name \notin DOMAIN properties
             THEN ValidateFromSkipping(arguments, properties, k + 1)
             ELSE LET expected_type == properties[arg_name].type
                      c == Construct(expected_type, arg_value)
                  IN  IF IsInstance(arg_value, expected_type)
                      THEN ValidateFromSkipping(arguments, properties, k + 1)
                      ELSE IF c.raised # "none"
                      THEN [raised |-> c.raised, arguments |-> arguments]
                      ELSE ValidateFromSkipping(
                               [arguments EXCEPT ![k].value = c.value],
                               properties, k + 1)

validate_arguments_skipping(tool_call, tool_signature) ==
    LET v == ValidateFromSkipping(tool_call.arguments,
                                  tool_signature.parameters.properties, 1)
    IN  [raised |-> v.raised,
         tool_call |-> [tool_call EXCEPT !.arguments = v.arguments]]

validate_arguments(tool_call, tool_signature) ==
    IF "arguments" \notin DOMAIN tool_call
    THEN [raised |-> "KeyError", tool_call |-> tool_call]
    ELSE LET v == ValidateFrom(tool_call.arguments,
                               tool_signature.parameters.properties, 1)
         IN  [raised |-> v.raised,
              tool_call |-> [tool_call EXCEPT !.arguments = v.arguments]]

\* Tool.run(**kwargs): self.fn(**kwargs).  The call raises TypeError when the
\* keywords are not the parameters of fn; otherwise fn does what `outcome`
\* says: it returns a value, unchanged, or raises.
Tool_run(tool, kwargs, outcome) ==
    IF { kwargs[i].name : i \in 1 .. Len(kwargs) } # tool.params
    THEN [raised |-> "TypeError", value |-> StrValue(<<>>)]
    ELSE outcome

\* ------------------------------------------ tool_pattern/tool_agent.py
\* TOOL_SYSTEM_PROMPT % signatures, abridged to its head, the signatures and
\* its tail.
TOOL_SYSTEM_PROMPT(signatures) == <<"T">> \o signatures \o <<"E">>

\* The tag of extract_tag_content(str(tool_call_response), "tool_call").
TOOL_CALL == <<"t", "o", "o", "l", "_", "c", "a", "l", "l">>
OpenTag == <<"<">> \o TOOL_CALL \o <<">">>
CloseTag == <<"<", "/">> \o TOOL_CALL \o <<">">>

\* The JSON documents of the model, each one element of a text, and what
\* json.loads makes of them: the signatures of the registered tools and the
\* tool calls the model may emit.  The second and the third call share id 0.
JsonDocs ==
    "{sig add}" :>
        [name |-> "add", description |-> <<"A">>,
         parameters |-> [properties |-> ("a" :> [type |-> "int"] @@ "b" :> [type |-> "int"])]]
    @@ "{sig greet}" :>
        [name |-> "greet", description |-> <<"G">>,
         parameters |-> [properties |-> ("name" :> [type |-> "str"])]]
    @@ "{add a='5' b=3 id=0}" :>
        [name |-> "add", id |-> 0,
         arguments |-> << [name |-> "a", value |-> StrValue(<<"5">>)],
                          [name |-> "b", value |-> IntValue(<<"3">>)] >>]
    @@ "{greet name='Al' id=1}" :>
        [name |-> "greet", id |-> 1,
         arguments |-> << [name |-> "name", value |-> StrValue(<<"A", "l">>)] >>]
    @@ "{greet name='Bo' id=0}" :>
        [name |-> "greet", id |-> 0,
         arguments |-> << [name |-> "name", value |-> StrValue(<<"B", "o">>)] >>]
    @@ "{nope id=2}" :>
        [name |-> "nope", id |-> 2, arguments |-> <<>>]
    @@ "{add a='abc' b=3 id=3}" :>
        [name |-> "add", id |-> 3,
         arguments |-> << [name |-> "a", value |-> StrValue(<<"a", "b", "c">>)],
                          [name |-> "b", value |-> IntValue(<<"3">>)] >>]

\* json.loads(text): the document when the text, whitespace aside, is one
\* JSON document; JSONDecodeError otherwise.
JsonLoads(text) ==
    LET t == Strip(text)
    IN  IF Len(t) = 1 /\ t[1] \in DOMAIN JsonDocs
        THEN [raised |-> "none", value |-> JsonDocs[t[1]]]
        ELSE [raised |-> "JSONDecodeError", value |-> [error |-> "JSONDecodeError"]]

\* self.tools: the tools the agent was built with.
Tools ==
    << [name |-> "add", fn_signature |-> "{sig add}", params |-> {"a", "b"}],
       [name |-> "greet", fn_signature |-> "{sig greet}", params |-> {"name"}] >>

\* self.tools_dict = {tool.name: tool for tool in self.tools}
tools_dict == [n \in { Tools[i].name : i \in 1 .. Len(Tools) } |->
                  Tools[CHOOSE i \in 1 .. Len(Tools) :
                            /\ Tools[i].name = n
                            /\ \A j \in 1 .. Len(Tools) : Tools[j].name = n => j <= i]]

\* add_tool_signatures(): "".join(tool.fn_signature for tool in self.tools)
RECURSIVE JoinSignatures(_)
JoinSignatures(tools) ==
    IF tools = <<>> THEN <<>>
    ELSE <<Head(tools).fn_signature>> \o JoinSignatures(Tail(tools))

add_tool_signatures == JoinSignatures(Tools)

\* observations[key] = value on a dict kept in insertion order.
DictSet(dict, key, value) ==
    IF \E i \in 1 .. Len(dict) : dict[i].id = key
    THEN [i \in 1 .. Len(dict) |->
              IF dict[i].id = key THEN [id |-> key, value |-> value] ELSE dict[i]]
    ELSE Append(dict, [id |-> key, value |-> value])

\* repr(value)
Repr(value) ==
    IF value.type = "str" THEN <<"'">> \o value.repr \o <<"'">> ELSE value.repr

\* The items of str(dict): "key: value, key: value".
RECURSIVE DictItems(_)
DictItems(dict) ==
    IF dict = <<>> THEN <<>>
    ELSE <<ToString(Head(dict).id), ":", " ">> \o Repr(Head(dict).value)
             \o (IF Len(dict) > 1 THEN <<",", " ">> ELSE <<>>)
             \o DictItems(Tail(dict))

\* f"Observation: {observations}"
ObservationText(dict) ==
    <<"O", "b", "s", "e", "r", "v", "a", "t", "i", "o", "n", ":", " ">>
        \o <<"{">> \o DictItems(dict) \o <<"}">>

\* update_chat_history(agent_chat_history, msg, role): the append of a
\* ChatHistory built without total_length, so with -1.
update_agent_chat_history(hist, msg, role) ==
    ChatHistoryAppend(hist, -1, build_prompt_structure(msg, role))

\* What one iteration of the loop of process_tool_calls found.
Failed(error) == [raised |-> error, invoked |-> <<>>, stored |-> <<>>]

\* A plausible slip in process_tool_calls: the exception of a tool caught per
\* call and kept as that call's observation.
process_tool_call_capturing(tool_call_str, outcome) ==
    LET parsed == JsonLoads(tool_call_str)
        tool_call == parsed.value
    IN  IF parsed.raised # "none" THEN Failed(parsed.raised)
        ELSE IF "name" \notin DOMAIN tool_call THEN Failed("KeyError")
        ELSE IF tool_call.name \notin DOMAIN tools_dict THEN Failed("KeyError")
        ELSE LET tool == tools_dict[tool_call.name]
                 validated == validate_arguments(
                                  tool_call, JsonLoads(<<tool.fn_signature>>).value)
                 ran == Tool_run(tool, validated.tool_call.arguments, outcome)
                 invocation == [name |-> tool.name,
                                arguments |-> validated.tool_call.arguments,
                                id |-> validated.tool_call.id,
                                raised |-> ran.raised,
                                returned |-> ran.value]
             IN  IF validated.raised # "none" THEN Failed(validated.raised)
                 ELSE [raised |-> "none", invoked |-> <<invocation>>,
                       stored |-> <<[id |-> validated.tool_call.id,
                                     value |-> IF ran.raised # "none"
                                               THEN StrValue(<<"e", "r", "r">>)
                                               ELSE ran.value]>>]

\* A plausible slip in process_tool_calls: a span that does not parse or
\* names no registered tool skipped (`continue`) instead of raising.
process_tool_call_skipping(tool_call_str, outcome) ==
    LET parsed == JsonLoads(tool_call_str)
        tool_call == parsed.value
    IN  IF parsed.raised # "none" THEN Failed("none")
        ELSE IF "name" \notin DOMAIN tool_call THEN Failed("none")
        ELSE IF tool_call.name \notin DOMAIN tools_dict THEN Failed("none")
        ELSE LET tool == tools_dict[tool_call.name]
                 validated == validate_arguments(
                                  tool_call, JsonLoads(<<tool.fn_signature>>).value)
                 ran == Tool_run(tool, validated.tool_call.arguments, outcome)
                 invocation == [name |-> tool.name,
                                arguments |-> validated.tool_call.arguments,
                                id |-> validated.tool_call.id,
                                raised |-> ran.raised,
                                returned |-> ran.value]
             IN  IF validated.raised # "none" THEN Failed(validated.raised)
                 ELSE IF ran.raised # "none"
                 THEN [raised |-> ran.raised, invoked |-> <<invocation>>, stored |-> <<>>]
                 ELSE [raised |-> "none", invoked |-> <<invocation>>,
                       stored |-> <<[id |-> validated.tool_call.id, value |-> ran.value]>>]

\* The body of the loop of process_tool_calls for one span: json.loads, the
\* lookup in tools_dict, validate_arguments, tool.run, and the result kept
\* under the call's id.  The first exception leaves process_tool_calls.
process_tool_call(tool_call_str, outcome) ==
    LET parsed == JsonLoads(tool_call_str)
        tool_call == parsed.value
    IN  IF parsed.raised # "none" THEN Failed(parsed.raised)
        ELSE IF "name" \notin DOMAIN tool_call THEN Failed("KeyError")
        ELSE IF tool_call.name \notin DOMAIN tools_dict THEN Failed("KeyError")
        ELSE LET tool == tools_dict[tool_call.name]
                 validated == validate_arguments(
                                  tool_call, JsonLoads(<<tool.fn_signature>>).value)
                 ran == Tool_run(tool, validated.tool_call.arguments, outcome)
                 invocation == [name |-> tool.name,
                                arguments |-> validated.tool_call.arguments,
                                id |-> validated.tool_call.id,
                                raised |-> ran.raised,
                                returned |-> ran.value]
             IN  IF validated.raised # "none" THEN Failed(validated.raised)
                 ELSE IF ran.raised # "none"
                 THEN [raised |-> ran.raised, invoked |-> <<invocation>>, stored |-> <<>>]
                 ELSE IF "id" \notin DOMAIN validated.tool_call
                 THEN [raised |-> "KeyError", invoked |-> <<invocation>>, stored |-> <<>>]
                 ELSE [raised |-> "none", invoked |-> <<invocation>>,
                       stored |-> <<[id |-> validated.tool_call.id, value |-> ran.value]>>]

\* What the model may put between the tags: each tool call of JsonDocs,
\* with whitespace around it, and a text that is no JSON.
SpanTexts ==
    { <<" ", doc, "\n">> :
          doc \in { "{add a='5' b=3 id=0}", "{greet name='Al' id=1}",
                    "{greet name='Bo' id=0}", "{nope id=2}",
                    "{add a='abc' b=3 id=3}" } }
    \cup { <<"{", "a">> }

\* A response with the given spans, each between the tags, in this order.
RECURSIVE TaggedSpans(_)
TaggedSpans(spans) ==
    IF spans = <<>> THEN <<>>
    ELSE OpenTag \o Head(spans) \o CloseTag \o <<" ">> \o TaggedSpans(Tail(spans))

ResponseWith(spans) == <<"o", "k", ":">> \o TaggedSpans(spans)

\* First responses without any <tool_call>...</tool_call>: plain texts, an
\* opening tag that is never closed, a closing tag alone.
ZeroSpanResponses ==
    { ResponseWith(<<>>),
      <<"4", "2">>,
      OpenTag \o <<"{add a='5' b=3 id=0}">>,
      <<"{add a='5' b=3 id=0}">> \o CloseTag }

\* The first responses of the model: none to MaxCalls tool calls.
FirstResponses ==
    ZeroSpanResponses
        \cup { ResponseWith(spans) : spans \in SeqUpTo(SpanTexts, MaxCalls) }

\* The responses to the final-answer request.
FinalAnswers == { <<"4", "2">>, <<"8", "!">> }

\* What a tool function may do: return a value or raise.
ToolOutcomes ==
    { [raised |-> "none", value |-> IntValue(<<"8">>)],
      [raised |-> "none", value |-> StrValue(<<"h", "i">>)],
      [raised |-> "ToolError", value |-> StrValue(<<>>)] }

\* After ToolAgent.__init__: no run yet.
ToolInit ==
    /\ HistIdle
    /\ ReflIdle
    /\ AuxIdle
    /\ tpc = "ready"
    /\ tool_chat_history = <<>>
    /\ agent_chat_history = <<>>
    /\ tool_calls = [content |-> <<>>, found |-> FALSE]
    /\ next_call = 0
    /\ observations = <<>>
    /\ executions = <<>>
    /\ trequests = <<>>
    /\ tresponses = <<>>
    /\ tresult = [kind |-> "none", value |-> <<>>, error |-> "none"]

\* A plausible slip in run: the final-answer history built like the tool
\* history, system prompt included.
ToolAgentRunSharedHistory(user_msg) ==
    /\ tpc = "ready"
    /\ LET user_prompt == build_prompt_structure(user_msg, "user")
           both == << build_prompt_structure(
                          TOOL_SYSTEM_PROMPT(add_tool_signatures), "system"),
                      user_prompt >>
       IN  /\ tool_chat_history' = both
           /\ agent_chat_history' = both
    /\ tpc' = "ask"
    /\ UNCHANGED <<tool_calls, next_call, observations, executions,
                   trequests, tresponses, tresult>>

\* run(user_msg) up to STEP 1: the user prompt and the two histories.
ToolAgentRun(user_msg) ==
    /\ tpc = "ready"
    /\ LET user_prompt == build_prompt_structure(user_msg, "user")
       IN  /\ tool_chat_history' =
                  << build_prompt_structure(
                         TOOL_SYSTEM_PROMPT(add_tool_signatures), "system"),
                     user_prompt >>
           /\ agent_chat_history' = <<user_prompt>>
    /\ tpc' = "ask"
    /\ UNCHANGED <<tool_calls, next_call, observations, executions,
                   trequests, tresponses, tresult>>

\* An exception leaves ToolAgent.run.
ToolRaise(error) ==
    /\ tpc' = "done"
    /\ tresult' = [kind |-> "raised", value |-> <<>>, error |-> error]

\* STEPS 1 and 2: the first completion request, with the tool history, and
\* the extraction of the tool calls from the response; with tool calls found
\* process_tool_calls is entered: `observations = {}`, no span consumed.
AskModel(response) ==
    /\ tpc = "ask"
    /\ trequests' = Append(trequests, tool_chat_history)
    /\ tresponses' = Append(tresponses, response)
    /\ tool_calls' = extract_tag_content(response, TOOL_CALL)
    /\ IF tool_calls'.found
       THEN /\ tpc' = "tools"
            /\ next_call' = 0
            /\ observations' = <<>>
       ELSE /\ tpc' = "final"
            /\ UNCHANGED <<next_call, observations>>
    /\ UNCHANGED <<tool_chat_history, agent_chat_history, executions, tresult>>

\* STEP 1 when completions_create raises.
AskModelFails ==
    /\ tpc = "ask"
    /\ trequests' = Append(trequests, tool_chat_history)
    /\ ToolRaise("APIError")
    /\ UNCHANGED <<tool_chat_history, agent_chat_history, tool_calls, next_call,
                   observations, executions, tresponses>>

\* A plausible slip in process_tool_calls: the spans taken last first.
NextSpanReversed(content, done) == content[Len(content) - done]

\* `for tool_call_str in tool_calls_content`: the span after `done` spans.
NextSpan(content, done) == content[done + 1]

\* One iteration of the loop of process_tool_calls, the tool doing what
\* `outcome` says; after the last span process_tool_calls returns and run
\* appends the observations to the final-answer history as one user turn.
ProcessToolCall(outcome) ==
    /\ tpc = "tools"
    /\ next_call < Len(tool_calls.content)
    /\ LET p == process_tool_call(NextSpan(tool_calls.content, next_call), outcome)
           dict == IF p.stored = <<>> THEN observations
                   ELSE DictSet(observations, p.stored[1].id, p.stored[1].value)
           last == next_call + 1 = Len(tool_calls.content)
           appended == update_agent_chat_history(
                           agent_chat_history, ObservationText(dict), "user")
       IN  /\ executions' = executions \o p.invoked
           /\ observations' = dict
           /\ next_call' = next_call + 1
           /\ IF p.raised # "none"
              THEN /\ ToolRaise(p.raised)
                   /\ UNCHANGED agent_chat_history
              ELSE IF ~last
              THEN UNCHANGED <<tpc, tresult, agent_chat_history>>
              ELSE IF appended.raised # "none"
              THEN /\ ToolRaise(appended.raised)
                   /\ UNCHANGED agent_chat_history
              ELSE /\ agent_chat_history' = appended.list
                   /\ tpc' = "final"
                   /\ UNCHANGED tresult
    /\ UNCHANGED <<tool_chat_history, tool_calls, trequests, tresponses>>

\* What run could do instead in STEP 3: without tool calls the first
\* response returned as it is, no further request made.
FinalAnswerDirect(response) ==
    /\ tpc = "final"
    /\ IF tool_calls.found
       THEN /\ trequests' = Append(trequests, agent_chat_history)
            /\ tresponses' = Append(tresponses, response)
            /\ tresult' = [kind |-> "returned", value |-> response, error |-> "none"]
       ELSE /\ tresult' = [kind |-> "returned", value |-> tresponses[1], error |-> "none"]
            /\ UNCHANGED <<trequests, tresponses>>
    /\ tpc' = "done"
    /\ UNCHANGED <<tool_chat_history, agent_chat_history, tool_calls, next_call,
                   observations, executions>>

\* STEP 3: the final-answer request with agent_chat_history; its response is
\* what run returns.
FinalAnswer(response) ==
    /\ tpc = "final"
    /\ trequests' = Append(trequests, agent_chat_history)
    /\ tresponses' = Append(tresponses, response)
    /\ tpc' = "done"
    /\ tresult' = [kind |-> "returned", value |-> response, error |-> "none"]
    /\ UNCHANGED <<tool_chat_history, agent_chat_history, tool_calls, next_call,
                   observations, executions>>

\* STEP 3 when completions_create raises.
FinalAnswerFails ==
    /\ tpc = "final"
    /\ trequests' = Append(trequests, agent_chat_history)
    /\ ToolRaise("APIError")
    /\ UNCHANGED <<tool_chat_history, agent_chat_history, tool_calls, next_call,
                   observations, executions, tresponses>>

ToolNext ==
    \/ \E u \in UserMsgs : ToolAgentRun(u) /\ UNCHANGED <<histvars, reflvars, auxvars>>
    \/ \E response \in FirstResponses :
           AskModel(response) /\ UNCHANGED <<histvars, reflvars, auxvars>>
    \/ AskModelFails /\ UNCHANGED <<histvars, reflvars, auxvars>>
    \/ \E outcome \in ToolOutcomes :
           ProcessToolCall(outcome) /\ UNCHANGED <<histvars, reflvars, auxvars>>
    \/ \E response \in FinalAnswers :
           FinalAnswer(response) /\ UNCHANGED <<histvars, reflvars, auxvars>>
    \/ FinalAnswerFails /\ UNCHANGED <<histvars, reflvars, auxvars>>

ToolSpec == ToolInit /\ [][ToolNext]_vars

\* ---------------------------- tool_pattern/tool.py: the tool decorator
\* How many tools are registered.
MaxTools == 2

\* An annotation: a class, whose __name__ is its name, or a string literal.
Class(name) == [kind |-> "class", name |-> name]
Literal(name) == [kind |-> "str", name |-> name]

\* The callables handed to the decorator: their parameters, in order, and
\* fn.__annotations__ as [name, annotation] in order.  raw has no
\* annotation, mixed has one for a alone, items declares a list, quoted
\* writes its annotation as a string, greet annotates what it returns.
Functions ==
    { [name |-> "add", params |-> <<"a", "b">>,
       annotations |-> << <<"a", Class("int")>>, <<"b", Class("int")>> >>],
      [name |-> "greet", params |-> <<"name">>,
       annotations |-> << <<"name", Class("str")>>, <<"return", Class("str")>> >>],
      [name |-> "scale", params |-> <<"x", "up">>,
       annotations |-> << <<"x", Class("float")>>, <<"up", Class("bool")>> >>],
      [name |-> "raw", params |-> <<"x">>, annotations |-> << >>],
      [name |-> "mixed", params |-> <<"a", "b">>,
       annotations |-> << <<"a", Class("int")>> >>],
      [name |-> "items", params |-> <<"x">>,
       annotations |-> << <<"x", Class("list")>> >>],
      [name |-> "quoted", params |-> <<"x">>,
       annotations |-> << <<"x", Literal("int")>> >>] }

\* The annotations get_fn_signature reads: all but "return".
InputAnnotations(fn) ==
    SelectSeq(fn.annotations, LAMBDA kv : kv[1] # "return")

\* get_fn_signature(fn): name, docstring, and for every annotation but
\* "return" the property {"type": v.__name__}; AttributeError when an
\* annotation has no __name__.
get_fn_signature(fn) ==
    LET anns == InputAnnotations(fn)
    IN  IF \E i \in 1 .. Len(anns) : anns[i][2].kind # "class"
        THEN [raised |-> "AttributeError", value |-> [name |-> fn.name]]
        ELSE [raised |-> "none",
              value |->
                 [name |-> fn.name,
                  description |-> <<fn.name>>,
                  parameters |->
                     [properties |->
                         [k \in { anns[i][1] : i \in 1 .. Len(anns) } |->
                             [type |-> anns[CHOOSE i \in 1 .. Len(anns) :
                                                anns[i][1] = k][2].name]]]]]

\* json.dumps(fn_signature) and json.loads of it: the document is kept as
\* the value it encodes, marked as text.
JsonDumps(value) == [json |-> value]
JsonParse(document) == document.json

\* tool(fn): the Tool the decorator returns, or what it raises.
tool(fn) ==
    LET fn_signature == get_fn_signature(fn)
    IN  IF fn_signature.raised # "none"
        THEN [raised |-> fn_signature.raised, value |-> [name |-> fn.name]]
        ELSE [raised |-> "none",
              value |-> [name |-> fn_signature.value.name,
                         fn |-> fn,
                         params |-> { fn.params[i] : i \in 1 .. Len(fn.params) },
                         fn_signature |-> JsonDumps(fn_signature.value)]]

\* The values a tool call may give to every parameter, and none at all.
SuppliedValues == ("int" :> IntValue(<<"5">>)) @@ ("str" :> StrValue(<<"5">>))
Supplied == DOMAIN SuppliedValues \cup {"omitted"}

\* The "arguments" of a tool call that gives the value to every parameter.
ArgumentsFor(fn, supplied) ==
    IF supplied = "omitted" THEN <<>>
    ELSE [k \in 1 .. Len(fn.params) |->
              [name |-> fn.params[k], value |-> SuppliedValues[supplied]]]

\* After the import of tool.py: nothing registered.
RegistrationInit ==
    /\ HistIdle
    /\ ReflIdle
    /\ ToolIdle
    /\ ExtIdle
    /\ runs_made = 0
    /\ MoreIdle
    /\ RegIdle

\* @tool on the callable fn.
Register(fn) ==
    /\ Len(registered) < MaxTools
    /\ LET made == tool(fn)
       IN  /\ reg_raised' = made.raised
           /\ registered' = IF made.raised = "none"
                            THEN Append(registered, made.value)
                            ELSE registered
    /\ UNCHANGED called

\* A tool call on the i-th registered tool, as process_tool_calls makes it:
\* validate_arguments against the parsed signature, then Tool.run.
CallRegistered(i, supplied) ==
    /\ i \in 1 .. Len(registered)
    /\ LET t == registered[i]
           tool_call == [name |-> t.name, id |-> 0,
                         arguments |-> ArgumentsFor(t.fn, supplied)]
           validated == validate_arguments(tool_call, JsonParse(t.fn_signature))
           ran == Tool_run(t, validated.tool_call.arguments,
                           [raised |-> "none", value |-> IntValue(<<"8">>)])
       IN  called' = [tool |-> t.name, argument |-> supplied,
                      raised |-> IF validated.raised # "none"
                                 THEN validated.raised ELSE ran.raised]
    /\ UNCHANGED <<registered, reg_raised>>

RegistrationNext ==
    \/ \E fn \in Functions :
           Register(fn) /\ UNCHANGED <<histvars, reflvars, toolvars, extvars, runs_made, morevars>>
    \/ \E i \in 1 .. MaxTools, supplied \in Supplied :
           CallRegistered(i, supplied)
               /\ UNCHANGED <<histvars, reflvars, toolvars, extvars, runs_made, morevars>>

RegistrationSpec == RegistrationInit /\ [][RegistrationNext]_vars

\* ------------------------------------- utils/extraction.py: the inputs
\* The tag searched for, and what a text is written from: the opening tag,
\* the closing tag, a word, a word on a line of its own, a stray "<".
ExtractTag == <<"a">>
Pieces == { <<"<", "a", ">">>, <<"<", "/", "a", ">">>, <<"x">>,
            <<" ", "y", "\n">>, <<"<">> }

\* The pieces written one after the other.
RECURSIVE Flatten(_)
Flatten(pieces) ==
    IF pieces = <<>> THEN <<>> ELSE Head(pieces) \o Flatten(Tail(pieces))

\* Before the call: any text of at most MaxPieces pieces.
ExtractionInit ==
    /\ HistIdle
    /\ ReflIdle
    /\ ToolIdle
    /\ RegIdle
    /\ runs_made = 0
    /\ MoreIdle
    /\ input_pieces \in SeqUpTo(Pieces, MaxPieces)
    /\ input_text = Flatten(input_pieces)
    /\ extracted = <<>>

\* extract_tag_content(text, tag)
Extract ==
    /\ extracted = <<>>
    /\ extracted' = <<extract_tag_content(input_text, ExtractTag)>>
    /\ UNCHANGED <<input_pieces, input_text>>

ExtractionNext ==
    \/ Extract /\ UNCHANGED <<histvars, reflvars, toolvars, regvars, runs_made, morevars>>

ExtractionSpec == ExtractionInit /\ [][ExtractionNext]_vars

\* ------------------------------------------ runs on one agent instance
\* One agent is built, a ReflectionAgent or a ToolAgent: no run yet.
RerunInit == ReflectionInit \/ ToolInit

\* ReflectionAgent.run has ended and the caller calls run on the same
\* instance again.  What is recorded about a run (the requests it sent, the
\* completions it got, its outcome) starts empty; the objects of the run
\* that ended are left where they are.
ReflectionRunAgain ==
    /\ pc = "done"
    /\ runs_made + 1 < MaxRuns
    /\ runs_made' = runs_made + 1
    /\ pc' = "ready"
    /\ requests' = <<>>
    /\ generations' = <<>>
    /\ critiques' = <<>>
    /\ result' = [kind |-> "none", value |-> <<>>, error |-> "none"]
    /\ UNCHANGED <<n_steps, step, generation_history, reflection_history,
                   generation, critique>>

\* ToolAgent.run has ended and the caller calls run on the same instance
\* again.
ToolRunAgain ==
    /\ tpc = "done"
    /\ runs_made + 1 < MaxRuns
    /\ runs_made' = runs_made + 1
    /\ tpc' = "ready"
    /\ executions' = <<>>
    /\ trequests' = <<>>
    /\ tresponses' = <<>>
    /\ tresult' = [kind |-> "none", value |-> <<>>, error |-> "none"]
    /\ UNCHANGED <<tool_chat_history, agent_chat_history, tool_calls, next_call,
                   observations>>

RerunNext ==
    \/ ReflectionNext
    \/ ToolNext
    \/ ReflectionRunAgain /\ UNCHANGED <<histvars, toolvars, regvars, extvars, morevars>>
    \/ ToolRunAgain /\ UNCHANGED <<histvars, reflvars, regvars, extvars, morevars>>

RerunSpec == RerunInit /\ [][RerunNext]_vars

\* --------------------- tool_pattern/tool.py: validate_arguments alone
\* The values a tool call may carry: 5, "5", "abc", "", True, 5.0.
ArgValues ==
    { IntValue(<<"5">>), StrValue(<<"5">>), StrValue(<<"a", "b", "c">>), StrValue(<<>>),
      [type |-> "bool", repr |-> <<"T", "r", "u", "e">>],
      [type |-> "float", repr |-> <<"5", ".", "0">>] }

\* The tools the calls are for: add(a: int, b: int), greet(name: str),
\* scale(x: float, up: bool).
ValidatedFunctions == { fn \in Functions : fn.name \in {"add", "greet", "scale"} }

\* An argument name none of the tools declares.
UndeclaredName == "zz"

\* The "arguments" objects for fn: up to MaxArgs members with distinct
\* names, each a parameter of fn or the undeclared name.
ArgumentLists(fn) ==
    LET members == [name : { fn.params[i] : i \in 1 .. Len(fn.params) } \cup {UndeclaredName},
                    value : ArgValues]
    IN  { a \in SeqUpTo(members, MaxArgs) :
              \A i, j \in 1 .. Len(a) : a[i].name = a[j].name => i = j }

\* A tool call as json.loads returns it, and the Tool it names.
ValidationInit ==
    /\ HistIdle
    /\ ReflIdle
    /\ ToolIdle
    /\ RegIdle
    /\ ExtIdle
    /\ runs_made = 0
    /\ QdrIdle
    /\ \E fn \in ValidatedFunctions :
           /\ v_tool = tool(fn).value
           /\ \E a \in ArgumentLists(fn) :
                  v_tool_call = [name |-> fn.name, id |-> 0, arguments |-> a]
    /\ v_results = <<>>
    /\ v_ran = <<>>

\* validate_arguments(tool_call, json.loads(tool.fn_signature)), on the tool
\* call first and then on what the call before returned.
Validate ==
    /\ v_ran = <<>>
    /\ Len(v_results) < MaxValidations
    /\ v_results # <<>> => v_results[Len(v_results)].raised = "none"
    /\ LET tool_call == IF v_results = <<>> THEN v_tool_call
                        ELSE v_results[Len(v_results)].tool_call
       IN  v_results' = Append(v_results,
                               validate_arguments(tool_call, JsonParse(v_tool.fn_signature)))
    /\ UNCHANGED <<v_tool, v_tool_call, v_ran>>

\* tool.run(**validated_tool_call["arguments"]), reached when
\* validate_arguments has returned.
RunValidated(outcome) ==
    /\ v_ran = <<>>
    /\ v_results # <<>>
    /\ v_results[Len(v_results)].raised = "none"
    /\ LET kwargs == v_results[Len(v_results)].tool_call.arguments
       IN  v_ran' = << [raised |-> Tool_run(v_tool, kwargs, outcome).raised,
                        kwargs |-> kwargs] >>
    /\ UNCHANGED <<v_tool, v_tool_call, v_results>>

ValidationNext ==
    \/ Validate
           /\ UNCHANGED <<histvars, reflvars, toolvars, regvars, extvars, runs_made, qdrvars>>
    \/ \E outcome \in ToolOutcomes :
           RunValidated(outcome)
               /\ UNCHANGED <<histvars, reflvars, toolvars, regvars, extvars, runs_made, qdrvars>>

ValidationSpec == ValidationInit /\ [][ValidationNext]_vars

\* ------------------------- twin_celebrity: vector_twin/qdrant/utils.py
\* What qdrant_client.upsert can do: store the point, or raise. The first
\* three errors are subclasses of Exception, KeyboardInterrupt is not.
UpsertFailures == {"UnexpectedResponse", "ResponseHandlingException", "ValueError"}
UpsertOutcomes == {"ok", "KeyboardInterrupt"} \cup UpsertFailures

ImageIds == {1, 2}
ImageLabels == {"ann", "bob"}
ImageEmbeddings == { <<0, 1>>, <<1, 0>> }

\* upsert of one point: a point with the same id is replaced.
Upsert(collection, point) ==
    IF \E i \in 1 .. Len(collection) : collection[i].id = point.id
    THEN [ i \in 1 .. Len(collection) |->
               IF collection[i].id = point.id THEN point ELSE collection[i] ]
    ELSE Append(collection, point)

\* The function with the try statement left out.
insert_image_embedding_uncaught(collection, log, img_embedding, img_id, img_label, outcome) ==
    IF outcome = "ok"
    THEN [points |-> Upsert(collection, [id |-> img_id, vector |-> img_embedding,
                                         payload |-> [label |-> img_label]]),
          logged |-> log, raised |-> "none", returned |-> "None"]
    ELSE [points |-> collection, logged |-> log, raised |-> outcome, returned |-> "nothing"]

\* insert_image_embedding: the upsert inside try, `except Exception` logs
\* the error; the function has no return statement.
insert_image_embedding(collection, log, img_embedding, img_id, img_label, outcome) ==
    IF outcome = "ok"
    THEN [points |-> Upsert(collection, [id |-> img_id, vector |-> img_embedding,
                                         payload |-> [label |-> img_label]]),
          logged |-> log, raised |-> "none", returned |-> "None"]
    ELSE IF outcome \in UpsertFailures
    THEN [points |-> collection,
          logged |-> Append(log, [level |-> "error", e |-> outcome]),
          raised |-> "none", returned |-> "None"]
    ELSE [points |-> collection, logged |-> log, raised |-> outcome, returned |-> "nothing"]

QdrantInit ==
    /\ HistIdle
    /\ ReflIdle
    /\ ToolIdle
    /\ RegIdle
    /\ ExtIdle
    /\ runs_made = 0
    /\ ValIdle
    /\ points = <<>>
    /\ logged = <<>>
    /\ inserts = <<>>

\* One call of insert_image_embedding by a caller that goes on afterwards.
Insert(img_embedding, img_id, img_label, outcome) ==
    /\ Len(inserts) < MaxInserts
    /\ LET r == insert_image_embedding(points, logged, img_embedding, img_id, img_label, outcome)
       IN  /\ points' = r.points
           /\ logged' = r.logged
           /\ inserts' = Append(inserts, [img_id |-> img_id, upsert |-> outcome,
                                          raised |-> r.raised, returned |-> r.returned])

QdrantNext ==
    \E img_embedding \in ImageEmbeddings, img_id \in ImageIds,
       img_label \in ImageLabels, outcome \in UpsertOutcomes :
        Insert(img_embedding, img_id, img_label, outcome)
            /\ UNCHANGED <<histvars, reflvars, toolvars, regvars, extvars, runs_made, valvars>>

QdrantSpec == QdrantInit /\ [][QdrantNext]_vars

\* ======================================================= the containers
\* The last n elements of s (all of s when it has fewer).
LastN(s, n) == SubSeq(s, Len(s) - n + 1, Len(s))

\* C1: a ChatHistory created empty with capacity N >= 0 holds, after more
\* than N appends, at most N messages: exactly the N most recently appended,
\* in append order.
C1_PlainKeepsMostRecent ==
    (messages = <<>> /\ total_length >= 0 /\ Len(hcalls) > total_length)
        => /\ Len(history) <= total_length
           /\ history = LastN(hcalls, total_length)

\* C1's case: capacity 2, four appends, the two retained differ.
C1_Witness ==
    /\ messages = <<>>
    /\ total_length = 2
    /\ Len(hcalls) = 4
    /\ history = <<hcalls[3], hcalls[4]>>
    /\ hcalls[3] # hcalls[4]
    /\ hcalls[2] # hcalls[3]

\* C2: whatever the containers were seeded with, with a capacity N >= 0 each
\* holds at most N messages after every append.
C2_LengthAtMostCapacity ==
    total_length >= 0
        => /\ (Len(hcalls) > 0 => Len(history) <= total_length)
           /\ (Len(ffcalls) > 0 => Len(ffhistory) <= total_length)

\* C3: a FixedFirstChatHistory of capacity N >= 2 seeded with at least one
\* message keeps the seeded first message at index 0 after any appends.
C3_FirstNeverEvicted ==
    (total_length >= 2 /\ Len(messages) >= 1)
        => /\ Len(ffhistory) >= 1
           /\ ffhistory[1] = messages[1]

\* C3's case: the container evicted twice and no appended message is the
\* seeded first one.
C3_Witness ==
    /\ total_length = 2
    /\ Len(messages) = 1
    /\ Len(ffcalls) = 3
    /\ \A i \in 1 .. 3 : ffcalls[i] # messages[1]
    /\ ffraised = "none"
    /\ ffhistory[1] = messages[1]

\* C4: a FixedFirstChatHistory of capacity N >= 2 seeded with one message
\* holds, after k >= N - 1 appends, the seeded message followed by the N - 1
\* most recently appended messages in append order.
C4_FixedFirstContents ==
    (total_length >= 2 /\ Len(messages) = 1 /\ Len(ffcalls) >= total_length - 1)
        => ffhistory = <<messages[1]>> \o LastN(ffcalls, total_length - 1)

\* C4's case: the demo of completions.py, capacity 3 and a fourth message
\* that evicts index 1.
C4_Witness ==
    /\ total_length = 3
    /\ Len(messages) = 1
    /\ Len(ffcalls) = 3
    /\ ffcalls[1] # ffcalls[2]
    /\ ffhistory = <<messages[1], ffcalls[2], ffcalls[3]>>

\* C5: with capacity -1 neither container evicts: each holds the initial
\* messages followed by every appended message in order.
C5_UnboundedNeverEvicts ==
    total_length = -1
        => /\ history = messages \o hcalls
           /\ ffhistory = messages \o ffcalls
           /\ hraised = "none"
           /\ ffraised = "none"

\* C5's case: both containers took MaxAppends messages on top of a seed.
C5_Witness ==
    /\ total_length = -1
    /\ Len(messages) = 2
    /\ Len(hcalls) >= 4
    /\ Len(ffcalls) >= 4
    /\ Len(history) >= 6
    /\ Len(ffhistory) >= 6

\* C6: for every capacity -1 or >= 0, ChatHistory.append completes without
\* error and the message is the last element afterwards; when the length
\* equalled the capacity, the element at index 0 is the only one removed.
C6_PlainAppendTotal ==
    [][ (hcalls' # hcalls /\ total_length >= -1)
            => /\ hraised' = "none"
               /\ Len(history') >= 1
               /\ history'[Len(history')] = hcalls'[Len(hcalls')]
               /\ history' = (IF Len(history) = total_length
                              THEN Tail(history)
                              ELSE history) \o <<hcalls'[Len(hcalls')]>>
      ]_vars

\* C7: a FixedFirstChatHistory of capacity <= 1 whose length equals its
\* capacity raises on append and keeps its contents: the message is not
\* added and the first entry is not removed.
C7_SmallCapacityRaises ==
    [][ (ffcalls' # ffcalls /\ total_length <= 1 /\ Len(ffhistory) = total_length)
            => /\ ffraised' = "IndexError"
               /\ ffhistory' = ffhistory
      ]_vars

\* C7's case: capacity 1, one message held, an append of another message
\* has raised.
C7_Witness ==
    /\ total_length = 1
    /\ Len(ffhistory) = 1
    /\ Len(ffcalls) >= 1
    /\ ffraised = "IndexError"
    /\ ffhistory[1] # ffcalls[Len(ffcalls)]

\* Both appends failed, or neither did and the contents are the same.
SameOutcome ==
    \/ hraised # "none" /\ ffraised # "none"
    \/ hraised = "none" /\ ffraised = "none" /\ history = ffhistory

\* C8 as stated: created empty and given the same appends, the two
\* containers hold the same contents (or both fail) after each append.
C8_EmptyFixedFirstIsPlain ==
    (messages = <<>> /\ hcalls = ffcalls /\ Len(hcalls) > 0) => SameOutcome

\* C8 amended: created empty and given the same appends, the two containers
\* hold the same contents (or both fail) after each append made below full
\* capacity: with capacity -1, with capacity 0 (both always fail), and for
\* the first N appends with capacity N.
C8_EmptyFixedFirstIsPlainBelowCapacity ==
    (/\ messages = <<>>
     /\ hcalls = ffcalls
     /\ Len(hcalls) > 0
     /\ (total_length <= 0 \/ Len(hcalls) <= total_length))
        => SameOutcome

\* C8's case: capacity 2 filled by two appends on each container.
C8_Witness ==
    /\ messages = <<>>
    /\ total_length = 2
    /\ hcalls = ffcalls
    /\ Len(hcalls) = 2
    /\ history = hcalls
    /\ ffhistory = hcalls

\* ================================================== the reflection loop
\* The requests made by `by`.
RequestsBy(by) == { i \in 1 .. Len(requests) : requests[i].by = by }

\* run has ended and no completion request failed.
RunEnded == pc = "done" /\ result.error # "APIError"

\* The critic answered exactly "<OK>" on every call it got.
CriticAlwaysOK == \A i \in 1 .. Len(critiques) : critiques[i] = StopSequence

\* The critic never answered a text holding the stop sequence.
CriticNeverOK == \A i \in 1 .. Len(critiques) : ~Contains(StopSequence, critiques[i])

\* run made one generator and one critic request and returned the first draft.
OneIterationFirstDraft ==
    /\ Cardinality(RequestsBy("generator")) = 1
    /\ Cardinality(RequestsBy("critic")) = 1
    /\ Len(generations) = 1
    /\ result.kind = "returned"
    /\ result.value = generations[1]

C10_NeverOKRunsAllSteps ==
    (RunEnded /\ CriticNeverOK)
        => /\ Cardinality(RequestsBy("generator")) = n_steps
           /\ Cardinality(RequestsBy("critic")) = n_steps
           /\ Len(generations) = n_steps
           /\ result.kind = "returned"
           /\ result.value = generations[Len(generations)]

\* C11: whenever every completion request returns, run ends returning the
\* most recently generated draft, on every exit path and for every n_steps.
C11_ReturnsLatestDraft ==
    RunEnded
        => /\ result.kind = "returned"
           /\ Len(generations) >= 1
           /\ result.value = generations[Len(generations)]

\* C12: the loop ends at the first iteration whose critique holds "<OK>"
\* anywhere in its text and never earlier: the iterations made are
\* min(n_steps, index of the first critique with the marker), and no
\* generator request follows a critique with the marker.
C12_StopsAtFirstMarker ==
    /\ \A i \in 1 .. Len(critiques) :
           Contains(StopSequence, critiques[i])
               => /\ i = Len(critiques)
                  /\ Len(generations) = i
                  /\ Cardinality(RequestsBy("generator")) = i
                  /\ pc \in {"break", "done"}
    /\ Len(generations) <= n_steps
    /\ RunEnded
           => \/ /\ Len(critiques) >= 1
                 /\ Contains(StopSequence, critiques[Len(critiques)])
                 /\ Len(generations) = Len(critiques)
              \/ /\ \A i \in 1 .. Len(critiques) : ~Contains(StopSequence, critiques[i])
                 /\ Len(generations) = n_steps
                 /\ Len(critiques) = n_steps

\* C12's case: the second critique holds the marker inside a longer text and
\* ends a run that had a budget of three iterations.
C12_Witness ==
    /\ pc = "done"
    /\ n_steps = 3
    /\ Len(critiques) = 2
    /\ ~Contains(StopSequence, critiques[1])
    /\ Contains(StopSequence, critiques[2])
    /\ critiques[2] # StopSequence
    /\ Len(generations) = 2
    /\ result.kind = "returned"

\* A completion request was made that returned nothing: it raised.
RequestFailed == Len(requests) > Len(generations) + Len(critiques)

\* C13: when a completion request of run fails, the failure leaves run, the
\* request is not retried and no further request is made.
C13_FailurePropagates ==
    RequestFailed
        => /\ pc = "done"
           /\ result.kind = "raised"
           /\ result.error = "APIError"
           /\ Len(requests) = Len(generations) + Len(critiques) + 1

\* C13's case: the generator request of the second iteration failed.
C13_Witness ==
    /\ RequestFailed
    /\ Len(generations) = 1
    /\ Len(critiques) = 1
    /\ requests[Len(requests)].by = "generator"
    /\ result.error = "APIError"

\* ================================================ the tool-calling loop
\* The first response of the model held no <tool_call>...</tool_call>.
ZeroSpanFirst == Len(tresponses) >= 1 /\ tresponses[1] \in ZeroSpanResponses

\* C14: when the first response holds zero <tool_call> spans, run returns
\* that first response verbatim as the final answer.
C14_DirectAnswerVerbatim ==
    (tpc = "done" /\ ZeroSpanFirst /\ tresult.error # "APIError")
        => /\ tresult.kind = "returned"
           /\ tresult.value = tresponses[1]

\* C15: when the first response holds zero <tool_call> spans, no registered
\* tool is invoked during the run.
C15_NoSpanNoTool ==
    ZeroSpanFirst => executions = <<>> /\ tpc # "tools"

\* C15's case: the first response opens a tool call and never closes it; run
\* returned without invoking a tool.
C15_Witness ==
    /\ tpc = "done"
    /\ tresult.kind = "returned"
    /\ tresponses[1] = OpenTag \o <<"{add a='5' b=3 id=0}">>
    /\ executions = <<>>

\* What identifies a tool call: the tool and the arguments, as texts.
CallKey(call) ==
    <<call.name,
      [i \in 1 .. Len(call.arguments) |->
           <<call.arguments[i].name, call.arguments[i].value.repr>>]>>

\* The span is one of the tool calls of JsonDocs.
IsCallSpan(span) == Len(span) = 3 /\ span[2] \in DOMAIN JsonDocs

\* C16: the tools of a response with several <tool_call> spans are executed
\* one at a time in the order of the spans in the text, and the final-answer
\* request is made only after every one of them has been executed.
C16_ToolsInTextOrder ==
    \A spans \in SeqUpTo(SpanTexts, MaxCalls) :
        (Len(tresponses) >= 1 /\ tresponses[1] = ResponseWith(spans) /\ spans # <<>>)
            => /\ Len(executions) <= Len(spans)
               /\ \A k \in 1 .. Len(executions) :
                      /\ IsCallSpan(spans[k])
                      /\ CallKey(executions[k]) = CallKey(JsonDocs[spans[k][2]])
               /\ Len(trequests) = 2
                      => /\ Len(executions) = Len(spans)
                         /\ \A k \in 1 .. Len(executions) : executions[k].raised = "none"

\* C16's case: add then greet in the text, add then greet executed, then the
\* final answer.
C16_Witness ==
    /\ tpc = "done"
    /\ tresult.kind = "returned"
    /\ tresponses[1] = ResponseWith(<< <<" ", "{add a='5' b=3 id=0}", "\n">>,
                                       <<" ", "{greet name='Al' id=1}", "\n">> >>)
    /\ Len(executions) = 2
    /\ executions[1].name = "add"
    /\ executions[2].name = "greet"

\* C17: after tools were executed, the history of the final-answer request
\* is exactly two messages, the user request and one user turn with all
\* collected observations; neither the tool system prompt nor the first
\* response is in it.
C17_FinalHistoryTwoMessages ==
    (Len(trequests) = 2 /\ tool_calls.found)
        => LET sent == trequests[2]
           IN  /\ Len(sent) = 2
               /\ sent[1] = tool_chat_history[2]
               /\ sent[1].role = "user"
               /\ sent[1].content \in UserMsgs
               /\ sent[2] = [role |-> "user", content |-> ObservationText(observations)]
               /\ \A i \in 1 .. Len(sent) :
                      /\ sent[i].role # "system"
                      /\ sent[i] # tool_chat_history[1]
                      /\ sent[i].content # tresponses[1]

\* C17's case: two tools ran and their observations went out as one turn.
C17_Witness ==
    /\ Len(trequests) = 2
    /\ Len(executions) = 2
    /\ Len(trequests[2]) = 2
    /\ trequests[2][2].content =
           <<"O", "b", "s", "e", "r", "v", "a", "t", "i", "o", "n", ":", " ",
             "{", "0", ":", " ", "8", ",", " ", "1", ":", " ", "'", "h", "i", "'", "}">>

\* C18: after process_tool_calls has returned, the observations map the id
\* of every tool call of the response to the unchanged return value of that
\* call's execution: no result is lost or replaced.
C18_EveryResultKept ==
    (tpc \in {"final", "done"} /\ tool_calls.found /\ next_call = Len(tool_calls.content)
        /\ tresult.error \in {"none", "APIError"})
        => \A k \in 1 .. Len(executions) :
               \E i \in 1 .. Len(observations) :
                   /\ observations[i].id = executions[k].id
                   /\ observations[i].value = executions[k].returned

\* C19: when a tool invocation raises, run aborts with that error: it is the
\* last invocation, no observation is fed back and the final-answer request
\* is never made; the invocations before it stay made.
C19_ToolErrorAborts ==
    \A k \in 1 .. Len(executions) :
        executions[k].raised # "none"
            => /\ k = Len(executions)
               /\ \A j \in 1 .. (k - 1) : executions[j].raised = "none"
               /\ tpc = "done"
               /\ tresult.kind = "raised"
               /\ tresult.error = executions[k].raised
               /\ Len(trequests) = 1
               /\ agent_chat_history = <<tool_chat_history[2]>>

\* C19's case: the first of two valid tool calls raised; the second was
\* never executed.
C19_Witness ==
    /\ Len(tool_calls.content) = 2
    /\ JsonLoads(tool_calls.content[2]).raised = "none"
    /\ JsonLoads(tool_calls.content[2]).value.name = "greet"
    /\ Len(executions) = 1
    /\ executions[1].raised = "ToolError"
    /\ tpc = "done"
    /\ tresult.error = "ToolError"

\* The spans that are no JSON, and those that name no registered tool.
MalformedSpans == { <<"{", "a">> }
UnregisteredSpans == { <<" ", "{nope id=2}", "\n">> }

\* C20: a <tool_call> span that is no valid JSON, or that names a tool not
\* registered, aborts run with a parse or a lookup error before any tool is
\* executed for that span, and the final-answer request is not made.
C20_BadSpanAborts ==
    \A spans \in SeqUpTo(SpanTexts, MaxCalls) :
        \A k \in 1 .. Len(spans) :
            (/\ Len(tresponses) >= 1
             /\ tresponses[1] = ResponseWith(spans)
             /\ spans[k] \in MalformedSpans \cup UnregisteredSpans
             /\ next_call >= k)
                => /\ next_call = k
                   /\ tpc = "done"
                   /\ tresult.kind = "raised"
                   /\ tresult.error = IF spans[k] \in MalformedSpans
                                      THEN "JSONDecodeError" ELSE "KeyError"
                   /\ Len(executions) = k - 1
                   /\ Len(trequests) = 1
                   /\ Len(agent_chat_history) = 1

\* C20's case: add ran, then a span naming the unregistered tool aborted run.
C20_Witness ==
    /\ tpc = "done"
    /\ Len(tresponses) >= 1
    /\ tresponses[1] = ResponseWith(<< <<" ", "{add a='5' b=3 id=0}", "\n">>,
                                       <<" ", "{nope id=2}", "\n">> >>)
    /\ Len(executions) = 1
    /\ tresult.error = "KeyError"
    /\ Len(trequests) = 1

\* =================================================== argument validation
\* The type declared for the parameter of a registered tool.
DeclaredType(tool_name, arg_name) ==
    JsonLoads(<<tools_dict[tool_name].fn_signature>>)
        .value.parameters.properties[arg_name].type

\* The spans whose argument cannot be converted: "abc" for a declared int.
UnconvertibleSpans == { <<" ", "{add a='abc' b=3 id=3}", "\n">> }

\* C21: validate_arguments converts an argument whose type is not the
\* declared one with the declared type's constructor (declared int, supplied
\* "5" gives 5), so every tool runs with arguments of the declared types;
\* when the value cannot be converted (declared int, supplied "abc") the
\* conversion error leaves run and the tool of that call is not invoked.
C21_CoercesOrFails ==
    /\ \A k \in 1 .. Len(executions) :
           LET e == executions[k]
           IN  /\ \A i \in 1 .. Len(e.arguments) :
                      IsInstance(e.arguments[i].value,
                                 DeclaredType(e.name, e.arguments[i].name))
               /\ e.id = 0 /\ e.name = "add"
                      => e.arguments = << [name |-> "a", value |-> IntValue(<<"5">>)],
                                          [name |-> "b", value |-> IntValue(<<"3">>)] >>
    /\ \A spans \in SeqUpTo(SpanTexts, MaxCalls) :
           \A k \in 1 .. Len(spans) :
               (/\ Len(tresponses) >= 1
                /\ tresponses[1] = ResponseWith(spans)
                /\ spans[k] \in UnconvertibleSpans
                /\ next_call >= k)
                   => /\ next_call = k
                      /\ tpc = "done"
                      /\ tresult.kind = "raised"
                      /\ tresult.error = "ValueError"
                      /\ Len(executions) = k - 1
                      /\ Len(trequests) = 1

\* C21's case: "5" was converted and add ran with the integers 5 and 3; the
\* next call, with "abc", ended run with the conversion error.
C21_Witness ==
    /\ tpc = "done"
    /\ Len(tresponses) >= 1
    /\ tresponses[1] = ResponseWith(<< <<" ", "{add a='5' b=3 id=0}", "\n">>,
                                       <<" ", "{add a='abc' b=3 id=3}", "\n">> >>)
    /\ Len(executions) = 1
    /\ executions[1].arguments[1].value = IntValue(<<"5">>)
    /\ tresult.error = "ValueError"

\* ========================================================== registration
\* Every input parameter of fn carries an annotation of type_mapping.
Supported(fn) ==
    \A k \in 1 .. Len(fn.params) :
        \E i \in 1 .. Len(fn.annotations) :
            /\ fn.annotations[i][1] = fn.params[k]
            /\ fn.annotations[i][2].kind = "class"
            /\ fn.annotations[i][2].name \in TypeNames

\* C22: a callable with an input parameter that has no annotation, or one
\* outside {int, str, bool, float}, is rejected when it is registered: it
\* never becomes a Tool, no such type reaches a schema, and no call of a
\* registered tool fails on the schema (KeyError) or on a parameter the
\* schema does not have (TypeError with every argument supplied).
C22_UnsupportedRejectedAtRegistration ==
    /\ \A i \in 1 .. Len(registered) :
           /\ Supported(registered[i].fn)
           /\ LET properties == JsonParse(registered[i].fn_signature).parameters.properties
              IN  \A k \in DOMAIN properties : properties[k].type \in TypeNames
    /\ called.argument # "omitted" => called.raised \notin {"KeyError", "TypeError"}

\* ============================================================ extraction
\* The inner texts of the <a>...</a> occurrences of a text, read off its
\* pieces from left to right: an occurrence opens at an opening tag outside
\* any occurrence and closes at the next closing tag.  `inside` is FALSE
\* outside an occurrence; `inner` is what the open occurrence holds so far.
RECURSIVE Occurrences(_, _, _)
Occurrences(pieces, inside, inner) ==
    IF pieces = <<>> THEN <<>>
    ELSE LET piece == Head(pieces)
             rest == Tail(pieces)
         IN  IF ~inside
             THEN Occurrences(rest, piece = <<"<", "a", ">">>, <<>>)
             ELSE IF piece = <<"<", "/", "a", ">">>
             THEN <<inner>> \o Occurrences(rest, FALSE, <<>>)
             ELSE Occurrences(rest, TRUE, inner \o piece)

\* The text without the whitespace at its two ends.
Trimmed(t) ==
    LET keep == { i \in 1 .. Len(t) : t[i] \notin {" ", "\n", "\t", "\r"} }
    IN  IF keep = {} THEN <<>>
        ELSE SubSeq(t, CHOOSE i \in keep : \A j \in keep : i <= j,
                       CHOOSE i \in keep : \A j \in keep : j <= i)

\* C23: extract_tag_content returns the trimmed inner text of every
\* non-overlapping <tag>...</tag> occurrence in order of appearance, and
\* found is true exactly when the content is non-empty.
C23_ExtractsEveryOccurrence ==
    extracted # <<>>
        => LET inner == Occurrences(input_pieces, FALSE, <<>>)
               r == extracted[1]
           IN  /\ r.content = [k \in 1 .. Len(inner) |-> Trimmed(inner[k])]
               /\ r.found = (r.content # <<>>)
               /\ input_text = <<"<", "a", ">", "x", "<", "/", "a", ">",
                                 "<", "a", ">", "x", "<", "/", "a", ">">>
                      => r = [content |-> << <<"x">>, <<"x">> >>, found |-> TRUE]

\* C23's case: two occurrences, the second on several lines, and text
\* around them.
C23_Witness ==
    /\ input_pieces = << <<"<", "a", ">">>, <<"x">>, <<"<", "/", "a", ">">>,
                         <<"<", "a", ">">>, <<" ", "y", "\n">>, <<"<", "/", "a", ">">> >>
    /\ extracted = << [content |-> << <<"x">>, <<"y">> >>, found |-> TRUE] >>

\* C24: an opening tag without a closing tag of its own is not matched: no
\* returned span holds a tag delimiter of the same name (for <a>x<a>y</a>
\* no span starts at the first, unterminated, <a>).
C24_UnterminatedNotMatched ==
    extracted # <<>>
        => \A k \in 1 .. Len(extracted[1].content) :
               /\ ~Contains(<<"<", "a", ">">>, extracted[1].content[k])
               /\ ~Contains(<<"<", "/", "a", ">">>, extracted[1].content[k])

\* ================================================== runs on one instance
\* The histories a first run builds from its arguments alone.
FreshGenerationHistory(u, g) ==
    << [role |-> "system", content |-> g \o BASE_GENERATION_SYSTEM_PROMPT],
       [role |-> "user", content |-> u] >>
FreshReflectionHistory(r) ==
    << [role |-> "system", content |-> r \o BASE_REFLECTION_SYSTEM_PROMPT] >>
FreshToolHistory(u) ==
    << [role |-> "system", content |-> TOOL_SYSTEM_PROMPT(add_tool_signatures)],
       [role |-> "user", content |-> u] >>

\* A run that starts, whatever ran before it on the instance, starts as a
\* first run with these arguments does: the histories hold what the
\* arguments give and nothing else, no local is bound, nothing is sent, and
\* process_tool_calls begins with no observation.
StartsFresh ==
    /\ (pc = "ready" /\ pc' = "loop")
           => /\ \E u \in UserMsgs, g \in SystemPrompts, r \in SystemPrompts :
                     /\ generation_history' = FreshGenerationHistory(u, g)
                     /\ reflection_history' = FreshReflectionHistory(r)
              /\ step' = 0
              /\ generation' = <<>>
              /\ critique' = <<>>
              /\ requests' = <<>>
              /\ result'.kind = "none"
    /\ (tpc = "ready" /\ tpc' = "ask")
           => /\ \E u \in UserMsgs :
                     /\ tool_chat_history' = FreshToolHistory(u)
                     /\ agent_chat_history' = <<FreshToolHistory(u)[2]>>
              /\ trequests' = <<>>
              /\ executions' = <<>>
              /\ tresult'.kind = "none"
    /\ (tpc = "ask" /\ tpc' = "tools")
           => /\ observations' = <<>>
              /\ next_call' = 0

\* The requests of a run hold what its arguments and the completions of
\* this run give: the first request is a fresh history, and the observations
\* fed back are those of the tools this run executed.
RequestsOfThisRunOnly ==
    /\ requests # <<>>
           => \E u \in UserMsgs, g \in SystemPrompts :
                  requests[1] = [by |-> "generator",
                                 messages |-> FreshGenerationHistory(u, g)]
    /\ Len(requests) >= 2
           => \E r \in SystemPrompts :
                  requests[2] = [by |-> "critic",
                                 messages |-> FreshReflectionHistory(r) \o
                                     << [role |-> "user", content |-> generations[1]] >>]
    /\ result.kind = "returned" => result.value = generations[Len(generations)]
    /\ trequests # <<>> => \E u \in UserMsgs : trequests[1] = FreshToolHistory(u)
    /\ Len(trequests) = 2
           => /\ trequests[2][1] = trequests[1][2]
              /\ Len(trequests[2]) = IF tool_calls.found THEN 2 ELSE 1
              /\ tool_calls.found
                     => /\ trequests[2][2].content = ObservationText(observations)
                        /\ \A i \in 1 .. Len(observations) :
                               \E k \in 1 .. Len(executions) :
                                   /\ executions[k].id = observations[i].id
                                   /\ executions[k].returned = observations[i].value
    /\ tresult.kind = "returned" => tresult.value = tresponses[Len(tresponses)]

\* C25: each invocation of ReflectionAgent.run and of ToolAgent.run builds
\* fresh histories: a run made after other runs on the same instance starts
\* in the state of a first run with the same arguments, so for the same
\* model responses it sends the same requests and returns the same result.
C25_RunsAreIndependent == []RequestsOfThisRunOnly /\ [][StartsFresh]_vars

\* C25's case: a second run on the instance went through two iterations
\* and returned.
C25_Witness ==
    /\ runs_made >= 1
    /\ pc = "done"
    /\ result.kind = "returned"
    /\ Len(requests) >= 4

\* ================================================ the reflection histories
\* ReflectionAgent.run has built its histories.
RunStarted == pc \in {"loop", "reflect", "break", "done"}

\* The last message of a history.
LastOf(hist) == hist[Len(hist)]

\* C26: at every point of ReflectionAgent.run the generator history and the
\* critic history each hold at most 3 messages, index 0 of the generator
\* history is the generation system prompt and index 0 of the critic
\* history is the reflection system prompt; no append in the loop raises.
C26_HistoriesBoundedPromptFirst ==
    RunStarted
        => /\ Len(generation_history) \in 1 .. 3
           /\ Len(reflection_history) \in 1 .. 3
           /\ \E g \in SystemPrompts :
                  generation_history[1] =
                      [role |-> "system", content |-> g \o BASE_GENERATION_SYSTEM_PROMPT]
           /\ \E r \in SystemPrompts :
                  reflection_history[1] =
                      [role |-> "system", content |-> r \o BASE_REFLECTION_SYSTEM_PROMPT]
           /\ \A k \in 1 .. Len(requests) :
                  /\ Len(requests[k].messages) <= 3
                  /\ requests[k].messages[1] =
                         IF requests[k].by = "generator"
                         THEN generation_history[1] ELSE reflection_history[1]
           /\ result.error \in {"none", "APIError", "UnboundLocalError"}

\* C26's case: after two full iterations both histories are full and have
\* evicted a message each.
C26_Witness ==
    /\ pc = "loop"
    /\ step = 2
    /\ Len(generation_history) = 3
    /\ Len(reflection_history) = 3
    /\ generation_history[1].role = "system"
    /\ reflection_history[1].role = "system"

\* C27: in every iteration the draft is appended to the generator history as
\* assistant turn and to the critic history as user turn before the critic
\* request, so every critic request has the latest draft as its last message
\* (role user); generator and critic requests alternate, generator first.
C27_CriticSeesLatestDraft ==
    /\ \A k \in 1 .. Len(requests) :
           /\ requests[k].by = IF k % 2 = 1 THEN "generator" ELSE "critic"
           /\ k % 2 = 0
                  => LastOf(requests[k].messages) =
                         [role |-> "user", content |-> generations[k \div 2]]
    /\ Len(generations) \in {Len(critiques), Len(critiques) + 1}
    /\ pc = "reflect"
           => /\ Len(generations) = Len(critiques) + 1
              /\ LastOf(generation_history) =
                     [role |-> "assistant", content |-> LastOf(generations)]
              /\ LastOf(reflection_history) =
                     [role |-> "user", content |-> LastOf(generations)]

\* C27's case: the critic was asked a second time, with the second draft.
C27_Witness ==
    /\ Len(requests) = 4
    /\ generations[1] # generations[2]
    /\ LastOf(requests[4].messages) = [role |-> "user", content |-> generations[2]]

\* C28: a critique is appended, as user turn to the generator history and
\* as assistant turn to the critic history, only when it does not contain
\* the stop marker; a critique with "<OK>" in it leaves both histories
\* unchanged.
C28_CritiqueAppendedUnlessOK ==
    [][ Len(critiques') = Len(critiques) + 1
            => LET text == LastOf(critiques')
               IN  IF Contains(<<"<", "O", "K", ">">>, text)
                   THEN /\ generation_history' = generation_history
                        /\ reflection_history' = reflection_history
                   ELSE /\ LastOf(generation_history') =
                               [role |-> "user", content |-> text]
                        /\ LastOf(reflection_history') =
                               [role |-> "assistant", content |-> text]
      ]_vars

\* C28's case: a first critique without the marker was appended, the second
\* one carried the marker and run left the loop.
C28_Witness ==
    /\ pc = "break"
    /\ Len(critiques) = 2
    /\ ~Contains(StopSequence, critiques[1])
    /\ Contains(StopSequence, critiques[2])
    /\ LastOf(generation_history) = [role |-> "assistant", content |-> generations[2]]
    /\ LastOf(reflection_history) = [role |-> "user", content |-> generations[2]]

GivenTo(k) == IF k = 1 THEN v_tool_call ELSE v_results[k - 1].tool_call

\* The types the schema of the tool declares, by parameter.
Declared == JsonParse(v_tool.fn_signature).parameters.properties

\* The argument is declared and its value is of the declared type (True and
\* False are integers).
WellTyped(arg) ==
    /\ arg.name \in DOMAIN Declared
    /\ \/ arg.value.type = Declared[arg.name].type
       \/ arg.value.type = "bool" /\ Declared[arg.name].type = "int"

\* C31: validate_arguments leaves well-typed input alone and is idempotent:
\* an argument whose type is the declared one is returned unchanged (a call
\* with only such arguments is returned as it is), validating a validated
\* tool call changes nothing, and name and id are never modified.
C31_ValidateIdempotent ==
    \A k \in 1 .. Len(v_results) :
        LET given == GivenTo(k)
            r == v_results[k]
        IN  /\ r.tool_call.name = v_tool_call.name
            /\ r.tool_call.id = v_tool_call.id
            /\ Len(r.tool_call.arguments) = Len(given.arguments)
            /\ \A i \in 1 .. Len(given.arguments) :
                   /\ r.tool_call.arguments[i].name = given.arguments[i].name
                   /\ WellTyped(given.arguments[i])
                          => r.tool_call.arguments[i] = given.arguments[i]
            /\ (\A i \in 1 .. Len(given.arguments) : WellTyped(given.arguments[i]))
                   => r = [raised |-> "none", tool_call |-> given]
            /\ k >= 2 => r = v_results[k - 1]

\* C31's case: the first validation converted an argument and kept a
\* well-typed one; the second returned the same call.
C31_Witness ==
    /\ Len(v_results) = 2
    /\ v_results[1].raised = "none"
    /\ v_results[1].tool_call # v_tool_call
    /\ \E i \in 1 .. Len(v_tool_call.arguments) : WellTyped(v_tool_call.arguments[i])
    /\ v_results[2] = v_results[1]

\* The tool call supplies an argument the schema does not declare.
SuppliesUndeclared ==
    \E i \in 1 .. Len(v_tool_call.arguments) :
        v_tool_call.arguments[i].name \notin DOMAIN Declared

FirstFailing ==
    LET bad == { i \in 1 .. Len(v_tool_call.arguments) :
                     LET arg == v_tool_call.arguments[i]
                     IN  \/ arg.name \notin DOMAIN Declared
                         \/ /\ ~WellTyped(arg)
                            /\ Construct(Declared[arg.name].type, arg.value).raised # "none" }
    IN  IF bad = {} THEN 0 ELSE CHOOSE i \in bad : \A j \in bad : i <= j

FailedInserts == { k \in 1 .. Len(inserts) : inserts[k].upsert \in UpsertFailures }

\* C33: insert_image_embedding never propagates a failure of the upsert:
\* when the upsert raises, the error is logged and the function returns
\* normally, with the value a successful insert returns, so the caller
\* cannot tell a stored embedding from a failed insert.
C33_UpsertFailureSwallowed ==
    /\ \A k \in FailedInserts :
           /\ inserts[k].raised = "none"
           /\ inserts[k].returned = "None"
    /\ \A k \in 1 .. Len(inserts) :
           inserts[k].upsert = "ok"
               => inserts[k].raised = "none" /\ inserts[k].returned = "None"
    /\ Len(logged) = Cardinality(FailedInserts)
    /\ \A i \in 1 .. Len(logged) :
           logged[i].level = "error" /\ logged[i].e \in UpsertFailures
    /\ Cardinality({ points[i].id : i \in 1 .. Len(points) })
           <= Cardinality({ k \in 1 .. Len(inserts) : inserts[k].upsert = "ok" })

\* C33's case: a stored embedding and a failed insert the caller saw end
\* alike; the failed one is in the log and not in the collection.
C33_Witness ==
    /\ Len(inserts) >= 2
    /\ inserts[1].upsert = "ok"
    /\ inserts[2].upsert \in UpsertFailures
    /\ inserts[2].img_id # inserts[1].img_id
    /\ inserts[2].raised = inserts[1].raised
    /\ inserts[2].returned = inserts[1].returned
    /\ Len(logged) >= 1
    /\ \A i \in 1 .. Len(points) : points[i].id # inserts[2].img_id

====
